---------------------------- MODULE Spec2Model ----------------------------
(***************************************************************************)
(* A model of release-version: the version codec (utils.py), the changelog *)
(* splitter (utils.py), the git repository seen through Repo (utils.py)    *)
(* and the release workflow main() / update_changelog() (main.py).         *)
(*                                                                         *)
(* Texts are sequences of one-character strings; a code point outside      *)
(* ASCII is written "U+XXXX".  Offsets are Python's: 0-based, half-open.   *)
(***************************************************************************)
EXTENDS Integers, Sequences, FiniteSets, TLC

(***************************************************************************)
(* Bounds of the model.                                                    *)
(***************************************************************************)
\* Version components of the Version harness range over 0..MaxComponent.
MaxComponent == 4

\* The changelogs of the changelog harness have at most MaxLines lines.
MaxLines == 4

(***************************************************************************)
(* Python str primitives.                                                  *)
(***************************************************************************)
Digits == <<"0", "1", "2", "3", "4", "5", "6", "7", "8", "9">>

IsDigit(c) == \E i \in 1..Len(Digits) : Digits[i] = c

\* int() of one decimal digit.
DigitVal(c) == (CHOOSE i \in 1..Len(Digits) : Digits[i] = c) - 1

\* str.isspace() for the characters of the model's alphabet.
Whitespace == {" ", "\n", "\t"}

\* s[a:b] with 0 <= a and b <= len(s); empty when b <= a.
Slice(s, a, b) == SubSeq(s, a + 1, b)

\* int(s) for a string of decimal digits.
RECURSIVE ParseInt(_)
ParseInt(s) ==
    IF Len(s) = 0 THEN 0
    ELSE 10 * ParseInt(Slice(s, 0, Len(s) - 1)) + DigitVal(s[Len(s)])

\* str(n) for a non-negative int: decimal, no leading zeros.
RECURSIVE FormatInt(_)
FormatInt(n) ==
    IF n < 10 THEN <<Digits[n + 1]>>
    ELSE Append(FormatInt(n \div 10), Digits[(n % 10) + 1])

\* str.lstrip(), str.rstrip(), str.strip().
RECURSIVE lstrip(_)
lstrip(s) ==
    IF Len(s) > 0 /\ s[1] \in Whitespace THEN lstrip(Tail(s)) ELSE s

RECURSIVE rstrip(_)
rstrip(s) ==
    IF Len(s) > 0 /\ s[Len(s)] \in Whitespace
    THEN rstrip(Slice(s, 0, Len(s) - 1))
    ELSE s

strip(s) == lstrip(rstrip(s))

\* str.startswith(prefix).
startswith(s, prefix) ==
    Len(s) >= Len(prefix) /\ Slice(s, 0, Len(prefix)) = prefix

\* str.splitlines(): lines without their terminators; a trailing newline
\* opens no further line.
RECURSIVE splitlines(_)
splitlines(s) ==
    IF Len(s) = 0 THEN <<>>
    ELSE IF \E i \in 1..Len(s) : s[i] = "\n"
         THEN LET i == CHOOSE i \in 1..Len(s) :
                           s[i] = "\n" /\ \A j \in 1..(i - 1) : s[j] # "\n"
              IN <<Slice(s, 0, i - 1)>> \o splitlines(Slice(s, i, Len(s)))
         ELSE <<s>>

\* "\n".join(lines).
RECURSIVE join(_)
join(lines) ==
    IF Len(lines) = 0 THEN <<>>
    ELSE IF Len(lines) = 1 THEN lines[1]
    ELSE lines[1] \o <<"\n">> \o join(Tail(lines))

(***************************************************************************)
(* Version (utils.py, class Version).                                      *)
(***************************************************************************)
Version(major, minor, patch) ==
    [major |-> major, minor |-> minor, patch |-> patch]

next_major(v) == Version(v.major + 1, 0, 0)

next_minor_noreset(v) == Version(v.major, v.minor + 1, v.patch)
next_minor(v) == Version(v.major, v.minor + 1, 0)

next_patch(v) == Version(v.major, v.minor, v.patch + 1)

\* Version.__str__: "major.minor.patch".
VersionStr(v) ==
    FormatInt(v.major) \o <<".">> \o FormatInt(v.minor) \o <<".">>
        \o FormatInt(v.patch)

\* Version.tag: "v" + str(self).
VersionTag(v) == <<"v">> \o VersionStr(v)

\* getattr(old_version, f"next_{component}")().
NextVersion(v, component) ==
    CASE component = "major" -> next_major(v)
      [] component = "minor" -> next_minor(v)
      [] component = "patch" -> next_patch(v)

(***************************************************************************)
(* Compiled patterns (re.Pattern).  A pattern is a sequence of elements:   *)
(*   [k |-> "lit", c |-> ch]     the literal character ch                  *)
(*   [k |-> "grp", name |-> n]   a capturing group around \d+, (?P<n>\d+), *)
(*                               or the unnamed (\d+) when n = ""          *)
(* with at least one element, no name used twice, and every name one of    *)
(* major, minor, patch.                                                    *)
(***************************************************************************)
Lit(ch) == [k |-> "lit", c |-> ch]
Grp(n) == [k |-> "grp", name |-> n]

ComponentNames == {"major", "minor", "patch"}

\* The positions of the pattern's capturing groups, in order.
RECURSIVE GroupPositions(_, _)
GroupPositions(pattern, k) ==
    IF k > Len(pattern) THEN <<>>
    ELSE IF pattern[k].k = "grp"
         THEN <<k>> \o GroupPositions(pattern, k + 1)
         ELSE GroupPositions(pattern, k + 1)

\* pattern.groups: the number of capturing groups.
PatternGroups(pattern) == Len(GroupPositions(pattern, 1))

\* pattern.groupindex: name -> group number, for the named groups.
PatternGroupIndex(pattern) ==
    LET pos == GroupPositions(pattern, 1)
        named == {g \in 1..Len(pos) : pattern[pos[g]].name # ""}
    IN [n \in {pattern[pos[g]].name : g \in named} |->
            CHOOSE g \in named : pattern[pos[g]].name = n]

NoMatch == [ok |-> FALSE, start |-> 0, end |-> 0, spans |-> <<>>]

\* The length of the run of digits of s that starts at offset i.
RECURSIVE DigitRun(_, _)
DigitRun(s, i) ==
    IF i < Len(s) /\ IsDigit(s[i + 1]) THEN 1 + DigitRun(s, i + 1) ELSE 0

\* The regex engine on elements k.. of the pattern at offset i of s: \d+ is
\* greedy and gives back digits only when the rest would not match.
RECURSIVE MatchRest(_, _, _, _)
MatchRest(pattern, k, s, i) ==
    IF k > Len(pattern)
    THEN [ok |-> TRUE, start |-> i, end |-> i, spans |-> <<>>]
    ELSE IF pattern[k].k = "lit"
    THEN IF i < Len(s) /\ s[i + 1] = pattern[k].c
         THEN MatchRest(pattern, k + 1, s, i + 1)
         ELSE NoMatch
    ELSE LET good == {n \in 1..DigitRun(s, i) :
                         MatchRest(pattern, k + 1, s, i + n).ok}
         IN IF good = {} THEN NoMatch
            ELSE LET n == CHOOSE n \in good : \A m \in good : m <= n
                     rest == MatchRest(pattern, k + 1, s, i + n)
                 IN [ok |-> TRUE, start |-> i, end |-> rest.end,
                     spans |-> <<[s |-> i, e |-> i + n]>> \o rest.spans]

\* pattern.match(s, i): start(0), end(0) and the spans of groups 1..groups.
MatchAt(pattern, s, i) ==
    LET m == MatchRest(pattern, 1, s, i)
    IN IF m.ok THEN [m EXCEPT !.start = i] ELSE NoMatch

\* pattern.search(s, pos): the leftmost match at or after offset pos.
search(pattern, s, pos) ==
    LET hits == {i \in pos..Len(s) : MatchAt(pattern, s, i).ok}
    IN IF hits = {} THEN NoMatch
       ELSE MatchAt(pattern, s, CHOOSE i \in hits : \A j \in hits : i <= j)

(***************************************************************************)
(* sub_named_groups (utils.py).                                            *)
(***************************************************************************)
\* What an uncaught IndexError of replfun leaves in place of a text.
IndexError == <<"IndexError">>

\* values = [""] * pattern.groups, then values[index - 1] = repl[name].
GroupValuesInVersionOrder(pattern, repl) ==
    [g \in 1..PatternGroups(pattern) |->
        IF g = 1 THEN repl["major"]
        ELSE IF g = 2 THEN repl["minor"]
        ELSE IF g = 3 THEN repl["patch"]
        ELSE <<>>]
GroupValues(pattern, repl) ==
    LET gi == PatternGroupIndex(pattern)
    IN [g \in 1..PatternGroups(pattern) |->
            IF \E n \in DOMAIN gi : gi[n] = g
            THEN repl[CHOOSE n \in DOMAIN gi : gi[n] = g]
            ELSE <<>>]

\* The loop of replfun: output += string[end(i):start(i+1)] + values[i].
RECURSIVE ReplLoop(_, _, _, _)
ReplLoop(m, values, s, i) ==
    IF i >= Len(values) THEN <<>>
    ELSE Slice(s, m.spans[i].e, m.spans[i + 1].s) \o values[i + 1]
             \o ReplLoop(m, values, s, i + 1)

\* replfun(match): match.start(1) and values[0] raise IndexError when the
\* pattern has no group.
replfun_keeps_last(m, values, s) ==
    IF Len(values) = 0 THEN IndexError
    ELSE Slice(s, m.start, m.spans[1].s) \o values[1]
             \o ReplLoop(m, values, s, 1)
             \o Slice(s, m.spans[Len(values)].s, m.end)
replfun(m, values, s) ==
    IF Len(values) = 0 THEN IndexError
    ELSE Slice(s, m.start, m.spans[1].s) \o values[1]
             \o ReplLoop(m, values, s, 1)
             \o Slice(s, m.spans[Len(values)].e, m.end)

\* re.sub(pattern, replfun, string) from offset pos on: every non-overlapping
\* match, left to right.
RECURSIVE SubFrom(_, _, _, _)
SubFrom(pattern, values, s, pos) ==
    LET m == search(pattern, s, pos)
    IN IF ~m.ok THEN Slice(s, pos, Len(s))
       ELSE LET out == replfun(m, values, s)
                rest == SubFrom(pattern, values, s, m.end)
            IN IF out = IndexError \/ rest = IndexError THEN IndexError
               ELSE Slice(s, pos, m.start) \o out \o rest

sub_named_groups(pattern, repl, string) ==
    SubFrom(pattern, GroupValues(pattern, repl), string, 0)

(***************************************************************************)
(* read_version, write_version (utils.py).                                 *)
(***************************************************************************)
\* What the uncaught TypeError of Version(**comps) leaves in place of a Version.
TypeError == [major |-> -1, minor |-> -1, patch |-> -1]

\* match.groupdict() with int() applied: name -> int(value).
GroupDictInts(pattern, m, s) ==
    LET gi == PatternGroupIndex(pattern)
    IN [n \in DOMAIN gi |->
            ParseInt(Slice(s, m.spans[gi[n]].s, m.spans[gi[n]].e))]

\* The loop of read_version over patterns k..: comps after it.
RECURSIVE ReadComps(_, _, _, _)
ReadComps(contents, patterns, k, comps) ==
    IF k > Len(patterns) THEN comps
    ELSE LET m == search(patterns[k], contents, 0)
             found == IF m.ok THEN GroupDictInts(patterns[k], m, contents)
                      ELSE <<>>
             merged == [n \in DOMAIN comps \cup DOMAIN found |->
                           IF n \in DOMAIN found THEN found[n] ELSE comps[n]]
         IN ReadComps(contents, patterns, k + 1, merged)

read_version_defaults(contents, patterns) ==
    LET comps == ReadComps(contents, patterns, 1, <<>>)
    IN Version(IF "major" \in DOMAIN comps THEN comps["major"] ELSE 0,
               IF "minor" \in DOMAIN comps THEN comps["minor"] ELSE 0,
               IF "patch" \in DOMAIN comps THEN comps["patch"] ELSE 0)
read_version(contents, patterns) ==
    LET comps == ReadComps(contents, patterns, 1, <<>>)
    IN IF DOMAIN comps = ComponentNames
       THEN Version(comps["major"], comps["minor"], comps["patch"])
       ELSE TypeError

\* repl = {key: str(value) for key, value in version._asdict().items()}.
VersionRepl(version) ==
    [n \in ComponentNames |-> FormatInt(version[n])]

RECURSIVE WriteLoop(_, _, _, _)
WriteLoop(contents, patterns, repl, k) ==
    IF k > Len(patterns) \/ contents = IndexError THEN contents
    ELSE WriteLoop(sub_named_groups(patterns[k], repl, contents),
                   patterns, repl, k + 1)

write_version(contents, patterns, version) ==
    WriteLoop(contents, patterns, VersionRepl(version), 1)

(***************************************************************************)
(* read_changelog (utils.py).                                              *)
(***************************************************************************)
\* The text matched by CHANGELOG_UNRELEASED = ^## Unreleased$ (re.M).
UnreleasedHeading ==
    <<"#", "#", " ", "U", "n", "r", "e", "l", "e", "a", "s", "e", "d">>

INITIAL_CHANGELOG ==
    <<"#", " ", "C", "h", "a", "n", "g", "e", "l", "o", "g", "\n", "\n",
      "A", "l", "l", " ", "n", "o", "t", "a", "b", "l", "e", " ", "c", "h",
      "a", "n", "g", "e", "s", " ", "t", "o", " ", "t", "h", "i", "s", " ",
      "p", "r", "o", "j", "e", "c", "t", " ", "w", "i", "l", "l", " ", "b",
      "e", " ", "d", "o", "c", "u", "m", "e", "n", "t", "e", "d", " ", "i",
      "n", " ", "t", "h", "i", "s", " ", "f", "i", "l", "e", ".", "\n",
      "\n", "T", "h", "e", " ", "f", "o", "r", "m", "a", "t", " ", "i",
      "s", " ", "b", "a", "s", "e", "d", " ", "o", "n", " ", "[", "K", "e",
      "e", "p", " ", "a", " ", "C", "h", "a", "n", "g", "e", "l", "o", "g",
      "]", "(", "h", "t", "t", "p", "s", ":", "/", "/", "k", "e", "e", "p",
      "a", "c", "h", "a", "n", "g", "e", "l", "o", "g", ".", "c", "o", "m",
      "/", "e", "n", "/", "1", ".", "0", ".", "0", "/", ")", ",", "\n",
      "a", "n", "d", " ", "t", "h", "i", "s", " ", "p", "r", "o", "j", "e",
      "c", "t", " ", "a", "d", "h", "e", "r", "e", "s", " ", "t", "o", " ",
      "[", "S", "e", "m", "a", "n", "t", "i", "c", " ", "V", "e", "r", "s",
      "i", "o", "n", "i", "n", "g", "]", "(", "h", "t", "t", "p", "s", ":",
      "/", "/", "s", "e", "m", "v", "e", "r", ".", "o", "r", "g", "/", "s",
      "p", "e", "c", "/", "v", "2", ".", "0", ".", "0", ".", "h", "t", "m",
      "l", ")", ".", "\n">>

\* ^ under re.M: offset i is the start of the text or follows a newline.
AtLineStart(s, i) == i = 0 \/ s[i] = "\n"

\* $ under re.M: offset i is the end of the text or stands before a newline.
AtLineEnd(s, i) == i = Len(s) \/ s[i + 1] = "\n"

\* CHANGELOG_UNRELEASED.match at offset i.
UnreleasedAt(s, i) ==
    /\ AtLineStart(s, i)
    /\ i + Len(UnreleasedHeading) <= Len(s)
    /\ Slice(s, i, i + Len(UnreleasedHeading)) = UnreleasedHeading
    /\ AtLineEnd(s, i + Len(UnreleasedHeading))

\* CHANGELOG_SECTION = ^##[^#] (re.M) at offset i: [^#] takes any character
\* but "#", a newline too.
SectionAtAnyDepth(s, i) ==
    /\ AtLineStart(s, i)
    /\ i + 2 <= Len(s)
    /\ s[i + 1] = "#" /\ s[i + 2] = "#"
SectionAt(s, i) ==
    /\ AtLineStart(s, i)
    /\ i + 3 <= Len(s)
    /\ s[i + 1] = "#" /\ s[i + 2] = "#" /\ s[i + 3] # "#"

\* CHANGELOG_UNRELEASED.search(changelog): start() and end() of the leftmost
\* match.
SearchUnreleased(s) ==
    LET hits == {i \in 0..Len(s) : UnreleasedAt(s, i)}
    IN IF hits = {} THEN [ok |-> FALSE, start |-> 0, end |-> 0]
       ELSE LET i == CHOOSE i \in hits : \A j \in hits : i <= j
            IN [ok |-> TRUE, start |-> i, end |-> i + Len(UnreleasedHeading)]

\* CHANGELOG_SECTION.search(changelog, pos): start() of the leftmost match at
\* or after pos.
SearchSection(s, pos) ==
    LET hits == {i \in pos..Len(s) : SectionAt(s, i)}
    IN IF hits = {} THEN [ok |-> FALSE, start |-> 0]
       ELSE [ok |-> TRUE, start |-> CHOOSE i \in hits : \A j \in hits : i <= j]

\* read_changelog on the text read: (prefix, body, suffix).  With an
\* Unreleased heading and no later section end_index is None, so that
\* changelog[middle_index:None] runs to the end and changelog[None:] is the
\* whole text.
SplitChangelog(changelog) ==
    LET start == SearchUnreleased(changelog)
    IN IF start.ok
       THEN LET end == SearchSection(changelog, start.end)
            IN <<rstrip(Slice(changelog, 0, start.start)),
                 strip(Slice(changelog, start.end,
                             IF end.ok THEN end.start ELSE Len(changelog))),
                 lstrip(Slice(changelog,
                              IF end.ok THEN end.start ELSE 0,
                              Len(changelog)))>>
       ELSE LET sec == SearchSection(changelog, 0)
                index == IF sec.ok THEN sec.start ELSE Len(changelog)
            IN <<rstrip(Slice(changelog, 0, index)),
                 strip(Slice(changelog, index, index)),
                 lstrip(Slice(changelog, index, Len(changelog)))>>

\* A path that holds no file.
NoFile == <<"NoFile">>

\* read_changelog(path): the file's text, INITIAL_CHANGELOG when the file
\* does not exist.
read_changelog(file_text) ==
    SplitChangelog(IF file_text = NoFile THEN INITIAL_CHANGELOG ELSE file_text)

(***************************************************************************)
(* update_changelog (main.py): the texts it builds.                        *)
(***************************************************************************)
SeedHeader1 ==
    <<"#", " ", "P", "l", "e", "a", "s", "e", " ", "e", "n", "t", "e", "r",
      " ", "t", "h", "e", " ", "c", "h", "a", "n", "g", "e", "l", "o", "g",
      " ", "e", "n", "t", "r", "y", " ", "f", "o", "r", " ", "v", "e", "r",
      "s", "i", "o", "n", " ">>

SeedHeader2 ==
    <<".", "\n", "#", " ", "L", "i", "n", "e", "s", " ", "s", "t", "a",
      "r", "t", "i", "n", "g", " ", "w", "i", "t", "h", " ", "'", "#", "'",
      " ", "w", "i", "l", "l", " ", "b", "e", " ", "i", "g", "n", "o", "r",
      "e", "d", ".", "\n">>

CommitsHeader1 ==
    <<"#", "\n", "#", " ", "C", "o", "m", "m", "i", "t", "s", " ", "s",
      "i", "n", "c", "e", " ", "v", "e", "r", "s", "i", "o", "n", " ">>

CommitsHeader2 ==
    <<":", "\n", "#", "\n">>

CommitBullet ==
    <<"#", " ", "-", " ">>

\* The separator between version and date in the heading, as main.py
\* line 50 spells it.
HeadingSeparator ==
    <<" ", "U+00E2", "U+20AC", "U+201C", " ">>

ReleaseMessagePrefix ==
    <<"R", "e", "l", "e", "a", "s", "e", " ", "v", "e", "r", "s", "i", "o",
      "n", " ">>

\* for commit in commits: content += f"# - {commit}\n".
RECURSIVE CommitLines(_)
CommitLines(commits) ==
    IF Len(commits) = 0 THEN <<>>
    ELSE CommitBullet \o commits[1] \o <<"\n">> \o CommitLines(Tail(commits))

\* The content handed to open_editor (main.py lines 24-33).
SeedContent(old_version, new_version, commits, changelog) ==
    SeedHeader1 \o VersionStr(new_version) \o SeedHeader2
      \o (IF Len(commits) > 0
          THEN CommitsHeader1 \o VersionStr(old_version) \o CommitsHeader2
                   \o CommitLines(commits)
          ELSE <<>>)
      \o (IF Len(changelog) > 0 THEN <<"\n">> \o changelog ELSE <<>>)

\* while lines and lines[0].startswith("#"): lines.pop(0).
RECURSIVE DropCommentLines(_)
DropCommentLines(lines) ==
    IF Len(lines) > 0 /\ startswith(lines[1], <<"#">>)
    THEN DropCommentLines(Tail(lines))
    ELSE lines

\* The entry taken from the edited text (main.py lines 34-37).
EntryNoStrip(edited) == join(DropCommentLines(splitlines(edited)))
EntryOf(edited) == strip(join(DropCommentLines(splitlines(edited))))

\* The concatenation of new_changelog (main.py lines 48-52) around a heading:
\* prefix + "\n\n" + heading + "\n\n" + entry + "\n\n" + suffix.
Render(prefix, heading, entry, suffix) ==
    prefix \o <<"\n", "\n">> \o heading \o <<"\n", "\n">> \o entry
      \o <<"\n", "\n">> \o suffix

\* The heading of new_changelog: f"## {new_version} {separator} {today}".
NewHeading(new_version, today) ==
    <<"#", "#", " ">> \o VersionStr(new_version) \o HeadingSeparator \o today

\* new_changelog (main.py lines 48-52).
NewChangelog(prefix, new_version, today, entry, suffix) ==
    Render(prefix, NewHeading(new_version, today), entry, suffix)

\* message = f"Release version {new_version}".
ReleaseMessage(new_version) == ReleaseMessagePrefix \o VersionStr(new_version)

(***************************************************************************)
(* The inputs of a run: the repository the program finds, its              *)
(* configuration, its argument and the day.                                *)
(***************************************************************************)
VersionFile == "version.txt"
ProjectFile == "pyproject.toml"
ChangelogFile == "CHANGELOG.md"
ReadmeFile == "README.md"

\* The tracked files, in the order git lists them.
FileOrder == <<ChangelogFile, ReadmeFile, ProjectFile, VersionFile>>
Files == {FileOrder[i] : i \in 1..Len(FileOrder)}

\* config.changelog when pyproject.toml names no changelog (None).
NoPath == ""

\* pattern = "(?P<major>\d+)\.(?P<minor>\d+)\.(?P<patch>\d+)".
FullPattern ==
    <<Grp("major"), Lit("."), Grp("minor"), Lit("."), Grp("patch")>>

\* pattern = "(?P<major>\d+)\.(?P<minor>\d+)": resolves no patch.
MajorMinorPattern == <<Grp("major"), Lit("."), Grp("minor")>>

\* pattern = "(?P<major>\d+)(?P<minor>\d+)\.(?P<patch>\d+)".
AdjacentPattern == <<Grp("major"), Grp("minor"), Lit("."), Grp("patch")>>

ProjectPrefix ==
    <<"v", "e", "r", "s", "i", "o", "n", " ", "=", " ", "\"">>

ProjectSuffix ==
    <<"\"", "\n">>

ReadmeText ==
    <<"#", " ", "t", "e", "s", "t", "\n">>

ReadmeEdited ==
    <<"#", " ", "t", "e", "s", "t", "\n", "n", "o", "t", "e", "s", "\n">>

\* A changelog without an Unreleased section (tests/test_cli.py line 137).
ChangelogReleased ==
    <<"#", " ", "C", "h", "a", "n", "g", "e", "l", "o", "g", "\n", "\n",
      "#", "#", " ", "0", ".", "1", ".", "0", " ", "U+2013", " ", "2", "0",
      "2", "3", "-", "1", "0", "-", "3", "1", "\n", "\n", "-", " ", "I",
      "n", "i", "t", "i", "a", "l", " ", "r", "e", "l", "e", "a", "s", "e",
      "!", "\n">>

\* A changelog with an Unreleased section above a released one.
ChangelogUnreleased ==
    <<"#", " ", "C", "h", "a", "n", "g", "e", "l", "o", "g", "\n", "\n",
      "#", "#", " ", "U", "n", "r", "e", "l", "e", "a", "s", "e", "d",
      "\n", "\n", "-", " ", "A", "d", "d", " ", "x", "\n", "\n", "#", "#",
      " ", "0", ".", "1", ".", "0", " ", "U+2013", " ", "2", "0", "2", "3",
      "-", "1", "0", "-", "3", "1", "\n", "\n", "-", " ", "I", "n", "i",
      "t", "i", "a", "l", " ", "r", "e", "l", "e", "a", "s", "e", "!", "\n">>

Today ==
    <<"2", "0", "2", "6", "-", "1", "0", "-", "3", "1">>

SubjectAdd ==
    <<"A", "d", "d", " ", "f", "i", "l", "e", "s">>

SubjectFeature ==
    <<"I", "m", "p", "l", "e", "m", "e", "n", "t", " ", "f", "e", "a", "t",
      "u", "r", "e">>

SubjectFix ==
    <<"F", "i", "x", " ", "t", "e", "s", "t">>

\* What the user may leave in the editor's file, given the seed content.
TypedEntry ==
    <<"-", " ", "N", "e", "w", " ", "r", "e", "l", "e", "a", "s", "e", "!",
      " ", " ", " ">>

TypedBlank ==
    <<" ", "\n", "\n">>

EditorResults(seed) ==
    {seed, <<>>, TypedBlank, TypedEntry, seed \o TypedEntry}

\* The versions the version files may start from.
StartVersions == {Version(0, 1, 0), Version(1, 9, 12)}

Configs ==
    [filenames : {<<VersionFile>>, <<VersionFile, ProjectFile>>},
     patterns : {<<FullPattern>>, <<MajorMinorPattern>>, <<AdjacentPattern>>},
     changelog : {NoPath, ChangelogFile}]

\* The committed tree of a repository whose files hold the version as the
\* text version_text.
TreeOf(version_text, changelog_text) ==
    [f \in Files |->
        CASE f = VersionFile -> version_text
          [] f = ProjectFile -> ProjectPrefix \o version_text \o ProjectSuffix
          [] f = ChangelogFile -> changelog_text
          [] f = ReadmeFile -> ReadmeText]

(***************************************************************************)
(* State.                                                                  *)
(***************************************************************************)
VARIABLES
    pc,           \* the position of main(): a state of the release workflow
    err,          \* what ended the run in "Failed"
    cfg,          \* Config: filenames, patterns, changelog
    component,    \* args.component
    today,        \* datetime.date.today().isoformat()
    branch,       \* the checked-out branch
    head,         \* file -> text committed at HEAD
    index,        \* file -> text staged
    work,         \* file -> text in the working tree
    log,          \* the subjects of the branch's commits, oldest first
    tags,         \* the local tags: [name, at], at = commits when tagged
    remote,       \* origin: [main, tags], what was pushed
    start,        \* the repository as the run found it
    contents,     \* main's contents
    old_version,  \* main's old_version
    new_version,  \* main's new_version
    split,        \* update_changelog's (prefix, body, suffix)
    entry,        \* update_changelog's entry
    file_i,       \* the position of main's loop over config.filenames
    calls,        \* the prompts, editor runs, writes and git calls so far
    ver,          \* Version harness: the argument
    bumped,       \* Version harness: the result
    bumpop,       \* Version harness: the method applied
    h_text,       \* codec and changelog harnesses: the text given
    h_patterns,   \* codec harness: the patterns given
    h_written,    \* codec and changelog harnesses: the texts produced so far
    h_read,       \* codec harness: what read_version returned
    h_op          \* codec and changelog harnesses: the function applied last

vars ==
    <<pc, err, cfg, component, today, branch, head, index, work, log, tags,
      remote, start, contents, old_version, new_version, split, entry, file_i,
      calls, ver, bumped, bumpop, h_text, h_patterns, h_written, h_read,
      h_op>>

repo_vars == <<branch, head, index, work, log, tags, remote>>
input_vars == <<cfg, component, today, start>>
local_vars == <<contents, old_version, new_version, split, entry, file_i>>
function_vars == <<h_text, h_patterns, h_written, h_read, h_op>>
harness_vars == <<ver, bumped, bumpop, function_vars>>

NoVersion == Version(0, 0, 0)

Call(op, file, text, ok) == [op |-> op, file |-> file, text |-> text, ok |-> ok]

(***************************************************************************)
(* Repo (utils.py).                                                        *)
(***************************************************************************)
\* Repo.current_branch.
current_branch == branch

\* Repo.changed_files: git diff --name-only [--staged].  Without --staged
\* the tracked files whose working-tree text differs from the index; with
\* it the files whose staged text differs from HEAD.
changed_files(staged) ==
    IF staged
    THEN {f \in Files : index[f] # head[f]}
    ELSE {f \in Files : index[f] # NoFile /\ work[f] # index[f]}

\* Repo.add: git add fails when the path is neither in the working tree nor
\* in the index.
AddFails(idx, wrk, f) == wrk[f] = NoFile /\ idx[f] = NoFile
AddTo(idx, wrk, f) == [idx EXCEPT ![f] = wrk[f]]

\* Repo.commits_since: [] when the ref does not resolve, else the subjects
\* of the commits made after it, oldest first.
commits_since_newest_first(obj) ==
    IF \A t \in tags : t.name # obj THEN <<>>
    ELSE LET t == CHOOSE t \in tags : t.name = obj
             n == Len(log) - t.at
         IN [i \in 1..n |-> log[Len(log) + 1 - i]]
commits_since(obj) ==
    IF \A t \in tags : t.name # obj THEN <<>>
    ELSE LET t == CHOOSE t \in tags : t.name = obj
         IN splitlines(join(SubSeq(log, t.at + 1, Len(log))))

\* What a run of the pre-commit hook may do: exit zero or not, and rewrite
\* some files of the working tree.
HookTargets == {VersionFile, ChangelogFile, ReadmeFile}
HookRuns == [ok : BOOLEAN, files : SUBSET HookTargets]

\* The text a hook leaves in a file it rewrites.
HookEdit(text) == Append(text, "\n")

AfterHook(wrk, hook) ==
    [f \in Files |->
        IF f \in hook.files /\ wrk[f] # NoFile THEN HookEdit(wrk[f])
        ELSE wrk[f]]

\* git commit succeeds when the hook exits zero and something is staged.
CommitSucceeds(hook) == hook.ok /\ index # head

\* The files a run of the hook changed in the working tree.
HookChanged(hook) == {f \in hook.files : work[f] # NoFile}

(***************************************************************************)
(* Init: the state when main() is entered.                                 *)
(***************************************************************************)
StartLog == <<SubjectAdd, SubjectFeature, SubjectFix>>

Init ==
    /\ pc = "Preflight"
    /\ err = ""
    /\ cfg \in Configs
    /\ component \in ComponentNames
    /\ today = Today
    /\ branch \in {"main", "dev"}
    /\ \E v \in StartVersions,
          cl \in {NoFile, ChangelogReleased, ChangelogUnreleased},
          dirty \in {"clean", "unstaged", "staged"},
          old_tagged \in BOOLEAN, new_tagged \in BOOLEAN :
          /\ head = TreeOf(IF cfg.patterns = <<AdjacentPattern>>
                            THEN FormatInt(v.major) \o FormatInt(v.minor)
                                    \o <<".">> \o FormatInt(v.patch)
                            ELSE VersionStr(v),
                            cl)
          /\ index = IF dirty = "staged"
                     THEN [head EXCEPT ![ReadmeFile] = ReadmeEdited]
                     ELSE head
          /\ work = IF dirty = "clean"
                    THEN head
                    ELSE [head EXCEPT ![ReadmeFile] = ReadmeEdited]
          /\ tags = (IF old_tagged
                     THEN {[name |-> VersionTag(v), at |-> 1]} ELSE {})
                    \cup
                    (IF new_tagged
                     THEN {[name |-> VersionTag(NextVersion(v, component)),
                            at |-> Len(StartLog)]}
                     ELSE {})
    /\ log = StartLog
    /\ remote = [main |-> Len(StartLog), tags |-> {t.name : t \in tags}]
    /\ start = [head |-> head, index |-> index, work |-> work, log |-> log,
                tags |-> tags, remote |-> remote]
    /\ contents = <<>>
    /\ old_version = NoVersion
    /\ new_version = NoVersion
    /\ split = <<<<>>, <<>>, <<>>>>
    /\ entry = <<>>
    /\ file_i = 0
    /\ calls = <<>>
    /\ ver = NoVersion
    /\ bumped = NoVersion
    /\ bumpop = "none"
    /\ h_text = <<>>
    /\ h_patterns = <<>>
    /\ h_written = <<>>
    /\ h_read = NoVersion
    /\ h_op = "none"

Fail(kind) == pc' = "Failed" /\ err' = kind

(***************************************************************************)
(* main (main.py), one action per step.                                    *)
(***************************************************************************)
\* Lines 66-73: the branch and the clean-tree checks.
PreflightStagedOnly ==
    /\ pc = "Preflight"
    /\ IF current_branch # "main" THEN Fail("NotInBranch")
       ELSE IF changed_files(TRUE) # {} THEN Fail("Uncommitted")
       ELSE pc' = "Bumping" /\ err' = err
    /\ UNCHANGED <<repo_vars, input_vars, local_vars, calls, harness_vars>>
Preflight ==
    /\ pc = "Preflight"
    /\ IF current_branch # "main" THEN Fail("NotInBranch")
       ELSE IF changed_files(FALSE) # {} \/ changed_files(TRUE) # {}
       THEN Fail("Uncommitted")
       ELSE pc' = "Bumping" /\ err' = err
    /\ UNCHANGED <<repo_vars, input_vars, local_vars, calls, harness_vars>>

\* Lines 75-78: read the files, the old version and the new one.
Bumping ==
    /\ pc = "Bumping"
    /\ LET texts == [i \in 1..Len(cfg.filenames) |-> work[cfg.filenames[i]]]
           old == read_version(texts[1], cfg.patterns)
       IN IF \E i \in 1..Len(texts) : texts[i] = NoFile
          THEN /\ Fail("FileNotFoundError")
               /\ UNCHANGED <<contents, old_version, new_version>>
          ELSE IF old = TypeError
          THEN /\ Fail("TypeError")
               /\ contents' = texts
               /\ UNCHANGED <<old_version, new_version>>
          ELSE /\ pc' = "Confirm" /\ err' = err
               /\ contents' = texts
               /\ old_version' = old
               /\ new_version' = NextVersion(old, component)
    /\ UNCHANGED <<repo_vars, input_vars, split, entry, file_i, calls,
                   harness_vars>>

\* confirm (utils.py 80-87): the prompt is asked again, after an error
\* message, for as long as the answer is neither y nor n.  The ...Again
\* positions are the prompts that were asked more than once.
AtVersionPrompt == pc \in {"Confirm", "ConfirmAgain"}
AtChangelogPrompt == pc \in {"ChangelogConfirm", "ChangelogConfirmAgain"}

Reprompt ==
    /\ AtVersionPrompt \/ AtChangelogPrompt
    /\ pc' = IF AtVersionPrompt THEN "ConfirmAgain" ELSE "ChangelogConfirmAgain"
    /\ UNCHANGED <<err, repo_vars, input_vars, local_vars, calls, harness_vars>>

\* Lines 80-83: confirm "old -> new"; a decline returns from main.
ConfirmVersionIgnored ==
    /\ AtVersionPrompt
    /\ \E answer \in BOOLEAN :
          /\ calls' = Append(calls, Call("confirm", "", <<>>, answer))
          /\ pc' = IF cfg.changelog # NoPath THEN "ChangelogEdit"
                   ELSE "WriteFiles"
    /\ file_i' = 1
    /\ UNCHANGED <<err, repo_vars, input_vars, contents, old_version,
                   new_version, split, entry, harness_vars>>
ConfirmVersion ==
    /\ AtVersionPrompt
    /\ \E answer \in BOOLEAN :
          /\ calls' = Append(calls, Call("confirm", "", <<>>, answer))
          /\ pc' = IF ~answer THEN "Aborted"
                   ELSE IF cfg.changelog # NoPath THEN "ChangelogEdit"
                   ELSE "WriteFiles"
    /\ file_i' = 1
    /\ UNCHANGED <<err, repo_vars, input_vars, contents, old_version,
                   new_version, split, entry, harness_vars>>

\* update_changelog lines 23-40: split the changelog, seed the editor, take
\* the entry from what the editor leaves; an empty entry exits with 1.
EditChangelog ==
    /\ pc = "ChangelogEdit"
    /\ LET parts == read_changelog(work[cfg.changelog])
           seed == SeedContent(old_version, new_version,
                               commits_since(VersionTag(old_version)),
                               parts[2])
       IN \E edited \in EditorResults(seed) :
             /\ split' = parts
             /\ calls' = calls \o <<Call("editor", "", seed, TRUE),
                                    Call("edited", "", edited, TRUE)>>
             /\ entry' = EntryOf(edited)
             /\ IF Len(EntryOf(edited)) = 0 THEN Fail("EmptyEntry")
                ELSE pc' = "ChangelogConfirm" /\ err' = err
    /\ UNCHANGED <<repo_vars, input_vars, contents, old_version, new_version,
                   file_i, harness_vars>>

\* update_changelog lines 45-53: on "y" write the new changelog; on "n"
\* return to main, which goes on at line 85.
ConfirmChangelog ==
    /\ AtChangelogPrompt
    /\ \E answer \in BOOLEAN :
          IF answer
          THEN LET text == NewChangelog(split[1], new_version, today, entry,
                                        split[3])
               IN /\ work' = [work EXCEPT ![cfg.changelog] = text]
                  /\ calls' = calls
                        \o <<Call("confirm", "", <<>>, TRUE),
                             Call("write", cfg.changelog, text, TRUE)>>
          ELSE /\ work' = work
               /\ calls' = Append(calls, Call("confirm", "", <<>>, FALSE))
    /\ pc' = "ChangelogAdd"
    /\ UNCHANGED <<err, branch, head, index, log, tags, remote, input_vars,
                   local_vars, harness_vars>>

\* Line 85: repo.add(config.changelog); a failing git add ends the run with
\* an uncaught CalledProcessError.
AddChangelog ==
    /\ pc = "ChangelogAdd"
    /\ IF AddFails(index, work, cfg.changelog)
       THEN /\ Fail("CalledProcessError")
            /\ index' = index
            /\ calls' = Append(calls, Call("add", cfg.changelog, <<>>, FALSE))
       ELSE /\ pc' = "WriteFiles" /\ err' = err
            /\ index' = AddTo(index, work, cfg.changelog)
            /\ calls' = Append(calls, Call("add", cfg.changelog, <<>>, TRUE))
    /\ UNCHANGED <<branch, head, work, log, tags, remote, input_vars,
                   local_vars, harness_vars>>

\* Lines 87-90, one turn of the loop: rewrite the file from the text read
\* at line 76 and stage it.
WriteFileNotStaged ==
    /\ pc = "WriteFiles"
    /\ LET f == cfg.filenames[file_i]
           new_content == write_version(contents[file_i], cfg.patterns,
                                        new_version)
       IN IF new_content = IndexError
          THEN /\ Fail("IndexError")
               /\ UNCHANGED <<work, index, calls, file_i>>
          ELSE /\ work' = [work EXCEPT ![f] = new_content]
               /\ index' = index
               /\ calls' = Append(calls, Call("write", f, new_content, TRUE))
               /\ file_i' = file_i + 1
               /\ pc' = IF file_i = Len(cfg.filenames) THEN "Committing"
                        ELSE "WriteFiles"
               /\ err' = err
    /\ UNCHANGED <<branch, head, log, tags, remote, input_vars, contents,
                   old_version, new_version, split, entry, harness_vars>>
WriteFile ==
    /\ pc = "WriteFiles"
    /\ LET f == cfg.filenames[file_i]
           new_content == write_version(contents[file_i], cfg.patterns,
                                        new_version)
       IN IF new_content = IndexError
          THEN /\ Fail("IndexError")
               /\ UNCHANGED <<work, index, calls, file_i>>
          ELSE /\ work' = [work EXCEPT ![f] = new_content]
               /\ index' = [index EXCEPT ![f] = new_content]
               /\ calls' = calls \o <<Call("write", f, new_content, TRUE),
                                      Call("add", f, <<>>, TRUE)>>
               /\ file_i' = file_i + 1
               /\ pc' = IF file_i = Len(cfg.filenames) THEN "Committing"
                        ELSE "WriteFiles"
               /\ err' = err
    /\ UNCHANGED <<branch, head, log, tags, remote, input_vars, contents,
                   old_version, new_version, split, entry, harness_vars>>

\* The record of a repo.commit(message), with what its hook run changed.
CommitCall(hook, ok) ==
    [op |-> "commit", file |-> "", text |-> ReleaseMessage(new_version),
     ok |-> ok, changed |-> HookChanged(hook)]

\* repo.commit(message): git runs the pre-commit hook, then commits the
\* index; `next` is where main goes on success, `caught` whether the
\* CalledProcessError of a failure is caught (line 95).
CommitStep(next, caught) ==
    \E hook \in HookRuns :
       /\ work' = AfterHook(work, hook)
       /\ IF CommitSucceeds(hook)
          THEN /\ head' = index
               /\ log' = Append(log, ReleaseMessage(new_version))
               /\ calls' = Append(calls, CommitCall(hook, TRUE))
               /\ pc' = next /\ err' = err
          ELSE /\ UNCHANGED <<head, log>>
               /\ calls' = Append(calls, CommitCall(hook, FALSE))
               /\ IF caught THEN pc' = "Recovering" /\ err' = err
                  ELSE Fail("CalledProcessError")

\* Lines 92-95: the first commit.
CommitFailureIgnored ==
    /\ pc = "Committing"
    /\ \E hook \in HookRuns :
          /\ work' = AfterHook(work, hook)
          /\ calls' = Append(calls, CommitCall(hook, CommitSucceeds(hook)))
          /\ IF CommitSucceeds(hook)
             THEN /\ head' = index
                  /\ log' = Append(log, ReleaseMessage(new_version))
             ELSE UNCHANGED <<head, log>>
    /\ pc' = "Tagging"
    /\ UNCHANGED <<err, branch, index, tags, remote, input_vars, local_vars,
                   harness_vars>>
Commit ==
    /\ pc = "Committing"
    /\ CommitStep("Tagging", TRUE)
    /\ UNCHANGED <<branch, index, tags, remote, input_vars, local_vars,
                   harness_vars>>

\* The orders in which `for file in updated_files` may visit the files:
\* updated_files is a set of paths, whose iteration order is not fixed.
Orders(files) ==
    {o \in [1..Cardinality(files) -> files] :
        \A i, j \in 1..Cardinality(files) : o[i] = o[j] => i = j}

\* The calls repo.add(file) for file in updated_files, visited in `order`.
AddCalls(order) ==
    [i \in 1..Len(order) |-> Call("add", order[i], <<>>, TRUE)]

\* Lines 96-108: after a failed commit, stage again what the hook changed,
\* if it changed something and only staged files.
RecoverNoSubsetCheck ==
    /\ pc = "Recovering"
    /\ LET updated_files == changed_files(FALSE)
       IN IF updated_files = {}
          THEN Fail("NoFilesChanged") /\ UNCHANGED <<index, calls>>
          ELSE /\ pc' = "Recommitting" /\ err' = err
               /\ index' = [f \in Files |->
                               IF f \in updated_files THEN work[f]
                               ELSE index[f]]
               /\ \E order \in Orders(updated_files) :
                     calls' = calls \o AddCalls(order)
    /\ UNCHANGED <<branch, head, work, log, tags, remote, input_vars,
                   local_vars, harness_vars>>
RecoverNoAdd ==
    /\ pc = "Recovering"
    /\ LET updated_files == changed_files(FALSE)
       IN IF updated_files = {}
          THEN Fail("NoFilesChanged") /\ UNCHANGED <<index, calls>>
          ELSE IF ~(updated_files \subseteq changed_files(TRUE))
          THEN Fail("UnexpectedFiles") /\ UNCHANGED <<index, calls>>
          ELSE /\ pc' = "Recommitting" /\ err' = err
               /\ UNCHANGED <<index, calls>>
    /\ UNCHANGED <<branch, head, work, log, tags, remote, input_vars,
                   local_vars, harness_vars>>
Recover ==
    /\ pc = "Recovering"
    /\ LET updated_files == changed_files(FALSE)
       IN IF updated_files = {}
          THEN Fail("NoFilesChanged") /\ UNCHANGED <<index, calls>>
          ELSE IF ~(updated_files \subseteq changed_files(TRUE))
          THEN Fail("UnexpectedFiles") /\ UNCHANGED <<index, calls>>
          ELSE /\ pc' = "Recommitting" /\ err' = err
               /\ index' = [f \in Files |->
                               IF f \in updated_files THEN work[f]
                               ELSE index[f]]
               /\ \E order \in Orders(updated_files) :
                     calls' = calls \o AddCalls(order)
    /\ UNCHANGED <<branch, head, work, log, tags, remote, input_vars,
                   local_vars, harness_vars>>

\* Line 109: the second commit; its CalledProcessError is not caught.
RecommitFailureIgnored ==
    /\ pc = "Recommitting"
    /\ \E hook \in HookRuns :
          /\ work' = AfterHook(work, hook)
          /\ calls' = Append(calls, CommitCall(hook, CommitSucceeds(hook)))
          /\ IF CommitSucceeds(hook)
             THEN /\ head' = index
                  /\ log' = Append(log, ReleaseMessage(new_version))
             ELSE UNCHANGED <<head, log>>
    /\ pc' = "Tagging"
    /\ UNCHANGED <<err, branch, index, tags, remote, input_vars, local_vars,
                   harness_vars>>
Recommit ==
    /\ pc = "Recommitting"
    /\ CommitStep("Tagging", FALSE)
    /\ UNCHANGED <<branch, index, tags, remote, input_vars, local_vars,
                   harness_vars>>

\* Line 111: repo.tag(new_version.tag); git tag fails when the tag exists.
Tag ==
    /\ pc = "Tagging"
    /\ LET name == VersionTag(new_version)
       IN IF \E t \in tags : t.name = name
          THEN /\ Fail("CalledProcessError")
               /\ tags' = tags
               /\ calls' = Append(calls, Call("tag", "", name, FALSE))
          ELSE /\ pc' = "Pushing" /\ err' = err
               /\ tags' = tags \cup {[name |-> name, at |-> Len(log)]}
               /\ calls' = Append(calls, Call("tag", "", name, TRUE))
    /\ UNCHANGED <<branch, head, index, work, log, remote, input_vars,
                   local_vars, harness_vars>>

\* Lines 112-114: the atomic push of main and the tag to origin; the remote
\* takes both refs or rejects both.
PushFailureRollsBack ==
    /\ pc = "Pushing"
    /\ LET name == VersionTag(new_version)
       IN \E accepted \in BOOLEAN :
             /\ calls' = Append(calls, Call("push", "", name, accepted))
             /\ IF accepted
                THEN /\ remote' = [main |-> Len(log),
                                   tags |-> remote.tags \cup {name}]
                     /\ pc' = "Done" /\ err' = err
                     /\ tags' = tags
                ELSE /\ remote' = remote
                     /\ tags' = {t \in tags : t.name # name}
                     /\ Fail("CalledProcessError")
    /\ UNCHANGED <<branch, head, index, work, log, input_vars,
                   local_vars, harness_vars>>
Push ==
    /\ pc = "Pushing"
    /\ LET name == VersionTag(new_version)
       IN \E accepted \in BOOLEAN :
             /\ calls' = Append(calls, Call("push", "", name, accepted))
             /\ IF accepted
                THEN /\ remote' = [main |-> Len(log),
                                   tags |-> remote.tags \cup {name}]
                     /\ pc' = "Done" /\ err' = err
                ELSE /\ remote' = remote
                     /\ Fail("CalledProcessError")
    /\ UNCHANGED <<branch, head, index, work, log, tags, input_vars,
                   local_vars, harness_vars>>

Next ==
    \/ Preflight
    \/ Bumping
    \/ Reprompt
    \/ ConfirmVersion
    \/ EditChangelog
    \/ ConfirmChangelog
    \/ AddChangelog
    \/ WriteFile
    \/ Commit
    \/ Recover
    \/ Recommit
    \/ Tag
    \/ Push

Spec == Init /\ [][Next]_vars

\* The positions of main and the steps that leave one.
Positions ==
    {"Preflight", "Bumping", "Confirm", "ConfirmAgain", "ChangelogEdit",
     "ChangelogConfirm", "ChangelogConfirmAgain", "ChangelogAdd",
     "WriteFiles", "Committing", "Recovering", "Recommitting", "Tagging",
     "Pushing", "Done", "Aborted", "Failed"}

Proceed ==
    /\ pc \notin {"Done", "Aborted", "Failed"}
    /\ pc' \in Positions
    /\ file_i' \in 0..(Len(cfg.filenames) + 1)

\* The run with every call returning: each git command, hook, editor run
\* and prompt comes back (a prompt with y or n in the end), and main, which
\* is sequential and blocking, then takes its next step.  Next is enabled
\* wherever main has not ended, and each of its steps but a repeated prompt
\* moves <<pc, file_i>>, so this is the weak fairness of Next, stated on
\* the position alone to keep ENABLED free of the text functions.
SpecFair == Spec /\ WF_<<pc, file_i>>(Proceed)

(***************************************************************************)
(* The Version harness: next_major, next_minor and next_patch applied to   *)
(* the versions with components in 0..MaxComponent.                        *)
(***************************************************************************)
HarnessVersions ==
    [major : 0..MaxComponent, minor : 0..MaxComponent,
     patch : 0..MaxComponent]

InitVersion ==
    /\ pc = "Idle"
    /\ err = ""
    /\ cfg = [filenames |-> <<VersionFile>>, patterns |-> <<FullPattern>>,
              changelog |-> NoPath]
    /\ component = "patch"
    /\ today = Today
    /\ branch = "main"
    /\ head = TreeOf(VersionStr(NoVersion), NoFile)
    /\ index = head
    /\ work = head
    /\ log = StartLog
    /\ tags = {}
    /\ remote = [main |-> Len(StartLog), tags |-> {}]
    /\ start = [head |-> head, index |-> index, work |-> work, log |-> log,
                tags |-> tags, remote |-> remote]
    /\ contents = <<>>
    /\ old_version = NoVersion
    /\ new_version = NoVersion
    /\ split = <<<<>>, <<>>, <<>>>>
    /\ entry = <<>>
    /\ file_i = 0
    /\ calls = <<>>
    /\ ver \in HarnessVersions
    /\ bumped = ver
    /\ bumpop = "none"
    /\ h_text = <<>>
    /\ h_patterns = <<>>
    /\ h_written = <<>>
    /\ h_read = NoVersion
    /\ h_op = "none"

ApplyNextMajor ==
    /\ bumpop = "none"
    /\ bumped' = next_major(ver)
    /\ bumpop' = "major"
    /\ UNCHANGED <<pc, err, repo_vars, input_vars, local_vars, calls, ver,
                   function_vars>>

ApplyNextMinor ==
    /\ bumpop = "none"
    /\ bumped' = next_minor(ver)
    /\ bumpop' = "minor"
    /\ UNCHANGED <<pc, err, repo_vars, input_vars, local_vars, calls, ver,
                   function_vars>>

ApplyNextPatch ==
    /\ bumpop = "none"
    /\ bumped' = next_patch(ver)
    /\ bumpop' = "patch"
    /\ UNCHANGED <<pc, err, repo_vars, input_vars, local_vars, calls, ver,
                   function_vars>>

NextVersionHarness ==
    \/ ApplyNextMajor
    \/ ApplyNextMinor
    \/ ApplyNextPatch

SpecVersion == InitVersion /\ [][NextVersionHarness]_vars

(***************************************************************************)
(* The codec harness: write_version and read_version applied to texts,     *)
(* pattern lists and versions drawn from small sets.                       *)
(***************************************************************************)
\* pattern = "(?P<patch>\d+)-(?P<minor>\d+)-(?P<major>\d+)".
ReversedPattern ==
    <<Grp("patch"), Lit("-"), Grp("minor"), Lit("-"), Grp("major")>>

\* pattern = "p(?P<patch>\d+)".
PatchPattern == <<Lit("p"), Grp("patch")>>


\* pattern = "(?P<major>\d+)\.1".
DigitLiteralPattern == <<Grp("major"), Lit("."), Lit("1")>>

\* pattern = "(\d+)x(?P<major>\d+)\.(?P<minor>\d+)".
UnnamedPattern == <<Grp(""), Lit("x")>> \o MajorMinorPattern

\* pattern = "-": no group at all.
LiteralPattern == <<Lit("-")>>

CodecPatterns ==
    {<<FullPattern>>, <<ReversedPattern>>, <<MajorMinorPattern, PatchPattern>>,
     <<AdjacentPattern>>, <<DigitLiteralPattern>>, <<UnnamedPattern>>,
     <<LiteralPattern>>}

TextPlain == <<"1", ".", "2", ".", "3">>
TextTagged == <<"v", "1", ".", "2", ".", "3", "\n">>
TextTwice == <<"1", ".", "2", ".", "3", " ", "4", ".", "5", ".", "6">>
TextDigitAfter == <<"1", ".", "2", ".", "1">>
TextLeadingZeros == <<"0", "0", "7", ".", "0", "8", ".", "9">>
TextNoVersion == <<"x">>
TextNumbered == <<"7", "x", "1", ".", "2", ".", "3">>
TextDashed == <<"3", "-", "2", "-", "1">>
TextSplit == <<"1", ".", "2", " ", "p", "3">>
TextShort == <<"1", "2", ".", "3">>
TextLong == <<"1", "0", ".", "2", "0", ".", "3", "0", ".", "4", "0">>

CodecTexts ==
    {<<>>, TextPlain, TextTagged, TextTwice, TextDigitAfter,
     TextLeadingZeros, TextNoVersion, TextNumbered, TextDashed,
     TextSplit, TextShort, TextLong}

\* Components of one and of two digits.
CodecVersions == [major : {0, 3, 12}, minor : {0, 3, 12}, patch : {0, 3, 12}]

\* The text the next call is given: the last text written, else the text
\* the harness started from.
CodecText == IF Len(h_written) = 0 THEN h_text ELSE h_written[Len(h_written)]

InitCodec ==
    /\ pc = "Idle"
    /\ err = ""
    /\ cfg = [filenames |-> <<VersionFile>>, patterns |-> <<FullPattern>>,
              changelog |-> NoPath]
    /\ component = "patch"
    /\ today = Today
    /\ branch = "main"
    /\ head = TreeOf(VersionStr(NoVersion), NoFile)
    /\ index = head
    /\ work = head
    /\ log = StartLog
    /\ tags = {}
    /\ remote = [main |-> Len(StartLog), tags |-> {}]
    /\ start = [head |-> head, index |-> index, work |-> work, log |-> log,
                tags |-> tags, remote |-> remote]
    /\ contents = <<>>
    /\ old_version = NoVersion
    /\ new_version = NoVersion
    /\ split = <<<<>>, <<>>, <<>>>>
    /\ entry = <<>>
    /\ file_i = 0
    /\ calls = <<>>
    /\ ver \in CodecVersions
    /\ bumped = ver
    /\ bumpop = "none"
    /\ h_text \in CodecTexts
    /\ h_patterns \in CodecPatterns
    /\ h_written = <<>>
    /\ h_read = NoVersion
    /\ h_op = "none"

\* contents = write_version(contents, patterns, version), at most twice.
ApplyWriteVersion ==
    /\ h_op \in {"none", "write"}
    /\ Len(h_written) < 2
    /\ CodecText # IndexError
    /\ h_written' = Append(h_written,
                           write_version(CodecText, h_patterns, ver))
    /\ h_op' = "write"
    /\ UNCHANGED <<pc, err, repo_vars, input_vars, local_vars, calls, ver,
                   bumped, bumpop, h_text, h_patterns, h_read>>

\* read_version(contents, patterns) on the text at hand.
ApplyReadVersion ==
    /\ h_op \in {"none", "write"}
    /\ CodecText # IndexError
    /\ h_read' = read_version(CodecText, h_patterns)
    /\ h_op' = "read"
    /\ UNCHANGED <<pc, err, repo_vars, input_vars, local_vars, calls, ver,
                   bumped, bumpop, h_text, h_patterns, h_written>>

NextCodec ==
    \/ ApplyWriteVersion
    \/ ApplyReadVersion

SpecCodec == InitCodec /\ [][NextCodec]_vars

(***************************************************************************)
(* The changelog harness: read_changelog applied to changelogs of up to    *)
(* MaxLines lines, then new_changelog built from the parts.                *)
(***************************************************************************)
LineTitle == <<"#", " ", "T">>
LineBlank == <<>>
LineUnreleased == UnreleasedHeading
LineItem == <<"-", " ", "x">>
LineRelease == <<"#", "#", " ", "0", ".", "1">>
LineSubsection == <<"#", "#", "#", " ", "A">>
LineUnreleasedNote == <<"#", "#", " ", "U", "n", "r", "e", "l", "e", "a", "s", "e", "d", " ", "x">>

ChangelogLines ==
    {LineTitle, LineBlank, LineUnreleased, LineItem, LineRelease,
     LineSubsection, LineUnreleasedNote}

\* The texts of at most MaxLines lines, joined by newlines.
HarnessChangelogs ==
    {join(ls) : ls \in UNION {[1..n -> ChangelogLines] : n \in 0..MaxLines}}

HarnessEntry == <<"-", " ", "N", "e", "w">>

InitChangelog ==
    /\ pc = "Idle"
    /\ err = ""
    /\ cfg = [filenames |-> <<VersionFile>>, patterns |-> <<FullPattern>>,
              changelog |-> ChangelogFile]
    /\ component = "patch"
    /\ today = Today
    /\ branch = "main"
    /\ head = TreeOf(VersionStr(NoVersion), NoFile)
    /\ index = head
    /\ work = head
    /\ log = StartLog
    /\ tags = {}
    /\ remote = [main |-> Len(StartLog), tags |-> {}]
    /\ start = [head |-> head, index |-> index, work |-> work, log |-> log,
                tags |-> tags, remote |-> remote]
    /\ contents = <<>>
    /\ old_version = NoVersion
    /\ new_version = NoVersion
    /\ split = <<<<>>, <<>>, <<>>>>
    /\ entry = <<>>
    /\ file_i = 0
    /\ calls = <<>>
    /\ ver = Version(0, 2, 0)
    /\ bumped = ver
    /\ bumpop = "none"
    /\ h_text \in HarnessChangelogs \cup {NoFile}
    /\ h_patterns = <<>>
    /\ h_written = <<>>
    /\ h_read = NoVersion
    /\ h_op = "none"

\* changelog_prefix, changelog, changelog_suffix = read_changelog(path).
ApplyReadChangelog ==
    /\ h_op = "none"
    /\ split' = read_changelog(h_text)
    /\ h_op' = "split"
    /\ UNCHANGED <<pc, err, repo_vars, input_vars, contents, old_version,
                   new_version, entry, file_i, calls, ver, bumped, bumpop,
                   h_text, h_patterns, h_written, h_read>>

\* new_changelog from the parts, with the body or a new text as the entry.
ApplyNewChangelog ==
    /\ h_op = "split"
    /\ \E e \in {split[2], HarnessEntry} :
          /\ Len(e) > 0
          /\ entry' = e
          /\ h_written' = <<NewChangelog(split[1], ver, today, e, split[3])>>
    /\ h_op' = "render"
    /\ UNCHANGED <<pc, err, repo_vars, input_vars, contents, old_version,
                   new_version, split, file_i, calls, ver, bumped, bumpop,
                   h_text, h_patterns, h_read>>

NextChangelog ==
    \/ ApplyReadChangelog
    \/ ApplyNewChangelog

SpecChangelog == InitChangelog /\ [][NextChangelog]_vars

(***************************************************************************)
(* The Repo harness: Repo.restore and Repo.run_hook, which main never      *)
(* calls, applied once to a repository with staged and unstaged changes.   *)
(***************************************************************************)
\* The text a change gives a file: that of the next patch release.
ChangedText(f) ==
    TreeOf(VersionStr(NextVersion(Version(0, 1, 0), "patch")),
           ChangelogUnreleased)[f]

RepoFiles == {VersionFile, ChangelogFile}

InitRepo ==
    /\ pc = "Idle"
    /\ err = ""
    /\ cfg = [filenames |-> <<VersionFile>>, patterns |-> <<FullPattern>>,
              changelog |-> ChangelogFile]
    /\ component = "patch"
    /\ today = Today
    /\ branch = "main"
    /\ \E cl \in {NoFile, ChangelogReleased},
          staged \in SUBSET RepoFiles, edited \in SUBSET RepoFiles :
          /\ head = TreeOf(VersionStr(Version(0, 1, 0)), cl)
          /\ index = [f \in Files |->
                         IF f \in staged THEN ChangedText(f) ELSE head[f]]
          /\ work = [f \in Files |->
                        IF f \in edited THEN HookEdit(ChangedText(f))
                        ELSE index[f]]
    /\ log = StartLog
    /\ tags = {}
    /\ remote = [main |-> Len(StartLog), tags |-> {}]
    /\ start = [head |-> head, index |-> index, work |-> work, log |-> log,
                tags |-> tags, remote |-> remote]
    /\ contents = <<>>
    /\ old_version = NoVersion
    /\ new_version = NoVersion
    /\ split = <<<<>>, <<>>, <<>>>>
    /\ entry = <<>>
    /\ file_i = 0
    /\ calls = <<>>
    /\ ver = NoVersion
    /\ bumped = NoVersion
    /\ bumpop = "none"
    /\ h_text = <<>>
    /\ h_patterns = <<>>
    /\ h_written = <<>>
    /\ h_read = NoVersion
    /\ h_op = "none"

\* git restore fails when the path is unknown to what it restores from:
\* the index, or with --staged the index and HEAD.
RestoreFails(f, staged) ==
    IF staged THEN index[f] = NoFile /\ head[f] = NoFile
    ELSE index[f] = NoFile

\* The arguments Repo.restore passes to git restore.
RestoreArgs(staged, worktree) ==
    (IF staged THEN <<"--staged">> ELSE <<>>)
       \o (IF worktree THEN <<"--worktree">> ELSE <<>>)

\* Repo.restore(file, staged, worktree): with --staged the index takes the
\* file from HEAD; the working tree takes it from HEAD with --staged
\* --worktree and from the index without --staged.
ApplyRestore ==
    /\ h_op = "none"
    /\ \E f \in Files, staged \in BOOLEAN, worktree \in BOOLEAN :
          /\ calls' = Append(calls, Call("restore", f,
                                         RestoreArgs(staged, worktree),
                                         ~RestoreFails(f, staged)))
          /\ IF RestoreFails(f, staged)
             THEN /\ err' = "CalledProcessError"
                  /\ UNCHANGED <<index, work>>
             ELSE /\ err' = err
                  /\ index' = IF staged THEN [index EXCEPT ![f] = head[f]]
                              ELSE index
                  /\ work' = IF staged /\ worktree
                             THEN [work EXCEPT ![f] = head[f]]
                             ELSE IF staged THEN work
                             ELSE [work EXCEPT ![f] = index[f]]
    /\ h_op' = "restore"
    /\ UNCHANGED <<pc, branch, head, log, tags, remote, input_vars,
                   local_vars, ver, bumped, bumpop, h_text, h_patterns,
                   h_written, h_read>>

\* Repo.run_hook(name): the script .git/hooks/{name} is run on its own; it
\* may rewrite files of the working tree, and a non-zero exit raises
\* CalledProcessError.  Nothing is staged or committed.  The path is run
\* whether or not a script is there: without one the call raises
\* FileNotFoundError, with one that is not executable PermissionError, and
\* the repository is left as it was.
ApplyRunHook ==
    /\ h_op = "none"
    /\ \/ \E hook \in HookRuns :
             /\ work' = AfterHook(work, hook)
             /\ calls' = Append(calls, Call("run_hook", "", <<>>, hook.ok))
             /\ err' = IF hook.ok THEN err ELSE "CalledProcessError"
       \/ \E raised \in {"FileNotFoundError", "PermissionError"} :
             /\ work' = work
             /\ calls' = Append(calls, Call("run_hook", "", <<>>, FALSE))
             /\ err' = raised
    /\ h_op' = "run_hook"
    /\ UNCHANGED <<pc, branch, head, index, log, tags, remote, input_vars,
                   local_vars, ver, bumped, bumpop, h_text, h_patterns,
                   h_written, h_read>>

NextRepo ==
    \/ ApplyRestore
    \/ ApplyRunHook

SpecRepo == InitRepo /\ [][NextRepo]_vars

\* The process's exit status once main has ended.
Exited == pc \in {"Done", "Aborted", "Failed"}
ExitCode == IF pc = "Failed" THEN 1 ELSE 0

(***************************************************************************)
(* What the claims speak of.                                               *)
(***************************************************************************)
CallIndexes == 1..Len(calls)

\* The calls that change a file, the index, the history, the tags or origin.
MutatingOps == {"write", "add", "commit", "tag", "push"}

NoMutationAttempted == \A i \in CallIndexes : calls[i].op \notin MutatingOps

RepoAsFound ==
    /\ head = start.head
    /\ index = start.index
    /\ work = start.work
    /\ log = start.log
    /\ tags = start.tags
    /\ remote = start.remote

\* calls[i] is the successful commit "Release version {new}".
IsReleaseCommit(i) ==
    /\ calls[i].op = "commit"
    /\ calls[i].ok
    /\ calls[i].text = ReleaseMessage(new_version)

\* calls[i] created the tag v{new}.
IsReleaseTag(i) ==
    /\ calls[i].op = "tag"
    /\ calls[i].ok
    /\ calls[i].text = VersionTag(new_version)

\* The local repository holds the release commit with the tag v{new} on it.
ReleaseCommitted ==
    /\ Len(log) = Len(start.log) + 1
    /\ log[Len(log)] = ReleaseMessage(new_version)
ReleaseTagged ==
    [name |-> VersionTag(new_version), at |-> Len(log)] \in tags

(***************************************************************************)
(* C1. The tag v{new} is created only after a commit "Release version      *)
(* {new}" succeeded, the push is made only after the tag was created, and  *)
(* a run is Done only after commit, tag and push succeeded in that order.  *)
(***************************************************************************)
C1_CommitTagPushOrder ==
    /\ \A i \in CallIndexes :
          calls[i].op = "tag" =>
             /\ calls[i].text = VersionTag(new_version)
             /\ \E j \in 1..(i - 1) : IsReleaseCommit(j)
             /\ ReleaseCommitted
    /\ \A i \in CallIndexes :
          calls[i].op = "push" =>
             /\ calls[i].text = VersionTag(new_version)
             /\ \E j \in 1..(i - 1) : IsReleaseTag(j)
             /\ ReleaseTagged
    /\ pc = "Done" =>
          /\ \E i, j, k \in CallIndexes :
                /\ i < j /\ j < k
                /\ IsReleaseCommit(i)
                /\ IsReleaseTag(j)
                /\ calls[k].op = "push" /\ calls[k].ok
          /\ ReleaseCommitted
          /\ ReleaseTagged
          /\ remote.main = Len(log)
          /\ VersionTag(new_version) \in remote.tags

\* A run that is Done after its first commit failed and was made again.
C1_Witness ==
    /\ pc = "Done"
    /\ \E i \in CallIndexes : calls[i].op = "commit" /\ ~calls[i].ok

(***************************************************************************)
(* C2. On another branch than main, or with a staged or an unstaged        *)
(* change, the run fails with a non-zero exit in Preflight and attempts no *)
(* mutation: nothing is written, staged, committed, tagged or pushed.      *)
(***************************************************************************)
StartedDirty ==
    \E f \in Files :
       start.index[f] # start.head[f] \/ start.work[f] # start.index[f]

C2_PreflightFailsWithoutMutation ==
    (pc # "Preflight" /\ (branch # "main" \/ StartedDirty)) =>
       /\ pc = "Failed"
       /\ ExitCode # 0
       /\ err \in {"NotInBranch", "Uncommitted"}
       /\ calls = <<>>
       /\ RepoAsFound

\* A run on main that Preflight ended for an unstaged change.
C2_Witness ==
    /\ pc = "Failed"
    /\ err = "Uncommitted"
    /\ branch = "main"
    /\ start.index = start.head
    /\ start.work # start.index

(***************************************************************************)
(* C3. A pre-commit hook that fails and leaves unstaged changes to files   *)
(* outside the staged set makes the run end with a non-zero exit and no    *)
(* partial commit: HEAD holds the files with the version from before the   *)
(* bump, no tag is created, nothing is pushed.                             *)
(***************************************************************************)
LastCommitFailed ==
    /\ Len(calls) > 0
    /\ calls[Len(calls)].op = "commit"
    /\ ~calls[Len(calls)].ok

\* The hook left an unstaged change in a file that is not staged.
ChangedOutsideStaged ==
    \E f \in changed_files(FALSE) : f \notin changed_files(TRUE)

NothingReleased ==
    /\ head = start.head
    /\ log = start.log
    /\ tags = start.tags
    /\ remote = start.remote
    /\ \A i \in 1..Len(cfg.filenames) :
          read_version(head[cfg.filenames[i]], cfg.patterns) = old_version

C3_HookChangesOutsideStagedAbort ==
    /\ []((LastCommitFailed /\ ChangedOutsideStaged) =>
             (pc \in {"Recovering", "Failed"} /\ NothingReleased))
    /\ [][(pc = "Recovering" /\ ChangedOutsideStaged) =>
             (/\ pc' = "Failed"
              /\ ExitCode' # 0
              /\ UNCHANGED <<head, log, tags, remote>>)]_vars

\* The first commit failed, the hook had rewritten the README, the run ended.
C3_Witness ==
    /\ pc = "Failed"
    /\ err = "UnexpectedFiles"
    /\ LastCommitFailed
    /\ ReadmeFile \in changed_files(FALSE)
    /\ new_version # old_version

(***************************************************************************)
(* C4. When the pre-commit hook fails and changed no file, the staged and  *)
(* the working-tree state are rolled back: after the non-zero exit every   *)
(* configured file holds the version from before the bump again, and no    *)
(* commit, tag or push was made.                                           *)
(***************************************************************************)
C4_NoChangeFailureRollsBack ==
    (pc = "Failed" /\ err = "NoFilesChanged") =>
       /\ ExitCode # 0
       /\ NothingReleased
       /\ index = start.index
       /\ work = start.work
       /\ \A i \in 1..Len(cfg.filenames) :
             read_version(work[cfg.filenames[i]], cfg.patterns) = old_version

(***************************************************************************)
(* C5, as claimed. When the hook fails and what it left unstaged is a      *)
(* non-empty subset of the staged files, the release goes on as a success: *)
(* the commit is made, the tag is created and the push is performed.       *)
(***************************************************************************)
FailedCommits == {i \in CallIndexes : calls[i].op = "commit" /\ ~calls[i].ok}

FirstFailedCommit == CHOOSE i \in FailedCommits : \A j \in FailedCommits : i <= j

\* The files Recover staged again: the adds that follow the failed commit.
Restaged ==
    IF FailedCommits = {} THEN {}
    ELSE {calls[i].file : i \in {j \in CallIndexes :
                                    j > FirstFailedCommit /\ calls[j].op = "add"}}

C5_RecoveryAlwaysReleases ==
    (Restaged # {} /\ Exited) =>
       /\ pc = "Done"
       /\ \E i \in CallIndexes : i > FirstFailedCommit /\ IsReleaseCommit(i)
       /\ \E i \in CallIndexes : IsReleaseTag(i)
       /\ \E i \in CallIndexes : calls[i].op = "push" /\ calls[i].ok

(***************************************************************************)
(* C5, as amended. When the hook fails and what it left unstaged is a      *)
(* non-empty subset of the staged files, those files are staged again and  *)
(* the commit is attempted once more; if that commit succeeds it holds the *)
(* hook-amended text of those files and the written text of the others,    *)
(* and the run goes on to the tag and the push, failing only if git        *)
(* rejects one of them.                                                    *)
(***************************************************************************)
WriteCalls(f) == {i \in CallIndexes : calls[i].op = "write" /\ calls[i].file = f}

\* The text the run wrote to f.
Written(f) ==
    calls[CHOOSE i \in WriteCalls(f) : \A j \in WriteCalls(f) : j <= i].text

SecondCommitMade ==
    /\ FailedCommits # {}
    /\ \E i \in CallIndexes : i > FirstFailedCommit /\ IsReleaseCommit(i)

C5_RecoveryCommitsAmendedFiles ==
    /\ [](SecondCommitMade =>
            /\ Restaged # {}
            /\ \A f \in Restaged : WriteCalls(f) # {}
            /\ \A f \in Files :
                  WriteCalls(f) # {} =>
                     head[f] = IF f \in Restaged THEN HookEdit(Written(f))
                               ELSE Written(f)
            /\ pc \in {"Tagging", "Pushing", "Done", "Failed"}
            /\ pc = "Failed" =>
                  /\ calls[Len(calls)].op \in {"tag", "push"}
                  /\ ~calls[Len(calls)].ok)
    /\ [][(/\ pc = "Recovering"
           /\ changed_files(FALSE) # {}
           /\ changed_files(FALSE) \subseteq changed_files(TRUE)) =>
             (/\ pc' = "Recommitting"
              /\ \A f \in Files :
                    index'[f] = IF f \in changed_files(FALSE) THEN work[f]
                                ELSE index[f]
              /\ work' = work
              /\ calls'[Len(calls')].op = "add")]_vars

\* A run that is Done with a commit that holds the hook-amended version file.
C5_Witness ==
    /\ pc = "Done"
    /\ SecondCommitMade
    /\ VersionFile \in Restaged
    /\ head[VersionFile] = HookEdit(VersionStr(new_version))

(***************************************************************************)
(* C6. Declining the changelog-entry confirmation aborts the release:     *)
(* after the decline the changelog is not written, no commit, tag or push  *)
(* is made, and the run does not end as a release.                         *)
(***************************************************************************)
\* The declined "Use this changelog entry?": a declined confirm that follows
\* the editor.
ChangelogDeclines ==
    {i \in CallIndexes :
        /\ calls[i].op = "confirm"
        /\ ~calls[i].ok
        /\ \E j \in 1..(i - 1) : calls[j].op = "editor"}

C6_ChangelogDeclineAborts ==
    \A i \in ChangelogDeclines :
       /\ \A j \in (i + 1)..Len(calls) :
             /\ ~(calls[j].op = "write" /\ calls[j].file = cfg.changelog)
             /\ ~(calls[j].op \in {"commit", "tag", "push"} /\ calls[j].ok)
       /\ pc # "Done"

(***************************************************************************)
(* C7. Declining the "old -> new" confirmation ends the run with exit code *)
(* 0 and no side effect: no file and no changelog written, nothing staged, *)
(* no editor, no commit, tag or push.                                      *)
(***************************************************************************)
VersionDeclined ==
    Len(calls) > 0 /\ calls[1].op = "confirm" /\ ~calls[1].ok

C7_VersionDeclineHasNoEffect ==
    VersionDeclined =>
       /\ pc = "Aborted"
       /\ ExitCode = 0
       /\ Len(calls) = 1
       /\ RepoAsFound

C7_Witness == VersionDeclined /\ pc = "Aborted"

(***************************************************************************)
(* C8. If the edited text is empty after its leading "#" lines are dropped *)
(* and the rest is trimmed, the run fails with a non-zero exit, the        *)
(* changelog is not written, and no commit, tag or push is made.           *)
(***************************************************************************)
\* Nothing but whitespace follows the leading "#" lines of the text.
BlankAfterComments(text) ==
    LET lines == splitlines(text)
        kept == {i \in 1..Len(lines) :
                    \E j \in 1..i : ~startswith(lines[j], <<"#">>)}
    IN \A i \in kept : \A n \in 1..Len(lines[i]) : lines[i][n] \in Whitespace

EditedBlank ==
    \E i \in CallIndexes :
       calls[i].op = "edited" /\ BlankAfterComments(calls[i].text)

C8_EmptyEntryFails ==
    EditedBlank =>
       /\ pc = "Failed"
       /\ err = "EmptyEntry"
       /\ ExitCode # 0
       /\ NoMutationAttempted
       /\ RepoAsFound

\* The editor left only blanks, and the run failed for the empty entry.
C8_Witness ==
    /\ pc = "Failed"
    /\ err = "EmptyEntry"
    /\ \E i \in CallIndexes : calls[i].op = "edited" /\ calls[i].text = TypedBlank

(***************************************************************************)
(* C9. When the atomic push fails the run ends in failure, the release     *)
(* commit and the tag of this run stay in the local repository, origin is  *)
(* unchanged, and no call follows the failed push.                         *)
(***************************************************************************)
PushFailed == \E i \in CallIndexes : calls[i].op = "push" /\ ~calls[i].ok

C9_PushFailureKeepsLocalRelease ==
    PushFailed =>
       /\ pc = "Failed"
       /\ ExitCode # 0
       /\ calls[Len(calls)].op = "push"
       /\ \A i \in 1..(Len(calls) - 1) : calls[i].op # "push"
       /\ ReleaseCommitted
       /\ ReleaseTagged
       /\ tags = start.tags
                   \cup {[name |-> VersionTag(new_version), at |-> Len(log)]}
       /\ remote = start.remote

C9_Witness == PushFailed /\ pc = "Failed" /\ ReleaseTagged

(***************************************************************************)
(* C10. next_major(v) = (major+1, 0, 0), next_minor(v) = (major, minor+1,  *)
(* 0), next_patch(v) = (major, minor, patch+1): one component goes up by   *)
(* one, the lower ones are zero, the higher ones are kept, and the result  *)
(* is greater than v in the lexicographic order of (major, minor, patch).  *)
(***************************************************************************)
LexLess(a, b) ==
    \/ a.major < b.major
    \/ a.major = b.major /\ a.minor < b.minor
    \/ a.major = b.major /\ a.minor = b.minor /\ a.patch < b.patch

C10_NextVersions ==
    /\ bumpop = "major" =>
          /\ bumped.major = ver.major + 1
          /\ bumped.minor = 0
          /\ bumped.patch = 0
    /\ bumpop = "minor" =>
          /\ bumped.major = ver.major
          /\ bumped.minor = ver.minor + 1
          /\ bumped.patch = 0
    /\ bumpop = "patch" =>
          /\ bumped.major = ver.major
          /\ bumped.minor = ver.minor
          /\ bumped.patch = ver.patch + 1
    /\ bumpop # "none" => LexLess(ver, bumped)

\* next_minor applied to a version whose patch is not zero.
C10_Witness == bumpop = "minor" /\ ver.patch > 0 /\ ver.minor > 0

(***************************************************************************)
(* C11. When the patterns, searched in the first configured file, leave    *)
(* one of major, minor, patch unresolved, the run fails with a non-zero    *)
(* exit before anything is changed: no prompt is shown, no file is         *)
(* written, nothing is staged, and no commit, tag or push is made.         *)
(***************************************************************************)
\* The first configured file is there and its text resolves no full version.
Unresolved ==
    /\ start.work[cfg.filenames[1]] # NoFile
    /\ DOMAIN ReadComps(start.work[cfg.filenames[1]], cfg.patterns, 1, <<>>)
          # ComponentNames

C11_UnresolvedVersionFailsBeforeMutation ==
    /\ (Unresolved /\ pc \notin {"Preflight", "Bumping"}) =>
          /\ pc = "Failed"
          /\ ExitCode # 0
          /\ calls = <<>>
          /\ RepoAsFound
    /\ (pc = "Failed" /\ err = "TypeError") => Unresolved

C11_Witness ==
    /\ pc = "Failed"
    /\ err = "TypeError"
    /\ cfg.patterns = <<MajorMinorPattern>>
    /\ branch = "main"

(***************************************************************************)
(* C12. write_version changes only the spans of the named groups major,    *)
(* minor, patch inside each match, each replaced by the decimal string of  *)
(* the version's component; the rest of a match (an unnamed group too) and *)
(* all unmatched text stay as they are, for patterns with zero or more     *)
(* named groups and for any number of matches.                             *)
(***************************************************************************)
\* The match m of pattern in s from offset prev on, groups g.. : the text of
\* a named group replaced by repl[name], everything else kept.
RECURSIVE NamedSpansIn(_, _, _, _, _, _)
NamedSpansIn(m, pattern, repl, s, g, prev) ==
    IF g > Len(m.spans) THEN Slice(s, prev, m.end)
    ELSE LET name == pattern[GroupPositions(pattern, 1)[g]].name
         IN Slice(s, prev, m.spans[g].s)
              \o (IF name # "" THEN repl[name]
                  ELSE Slice(s, m.spans[g].s, m.spans[g].e))
              \o NamedSpansIn(m, pattern, repl, s, g + 1, m.spans[g].e)

\* Every non-overlapping match of pattern in s from offset pos on.
RECURSIVE NamedSpansFrom(_, _, _, _)
NamedSpansFrom(pattern, repl, s, pos) ==
    LET m == search(pattern, s, pos)
    IN IF ~m.ok THEN Slice(s, pos, Len(s))
       ELSE Slice(s, pos, m.start)
              \o NamedSpansIn(m, pattern, repl, s, 1, m.start)
              \o NamedSpansFrom(pattern, repl, s, m.end)

RECURSIVE OnlyNamedSpansReplaced(_, _, _, _)
OnlyNamedSpansReplaced(s, patterns, repl, k) ==
    IF k > Len(patterns) THEN s
    ELSE OnlyNamedSpansReplaced(NamedSpansFrom(patterns[k], repl, s, 0),
                                patterns, repl, k + 1)

C12_OnlyNamedGroupSpansChange ==
    Len(h_written) >= 1 =>
       h_written[1] = OnlyNamedSpansReplaced(h_text, h_patterns,
                                             VersionRepl(ver), 1)

(***************************************************************************)
(* C13, as claimed. Round trip: for every Version v and every text that    *)
(* matches a pattern carrying all three named groups,                      *)
(* read_version(write_version(text, patterns, v), patterns) = v.           *)
(***************************************************************************)
\* The pattern carries the three named groups.
CarriesAll(pattern) == DOMAIN PatternGroupIndex(pattern) = ComponentNames

\* The harness read the text that write_version made of h_text.
ReadAfterWrite == h_op = "read" /\ Len(h_written) = 1

C13_RoundTrip ==
    (/\ ReadAfterWrite
     /\ \E k \in 1..Len(h_patterns) :
           CarriesAll(h_patterns[k]) /\ search(h_patterns[k], h_text, 0).ok) =>
       h_read = ver

(***************************************************************************)
(* C13, as amended. The round trip holds for a list of one pattern that is *)
(* made of the three named groups, each (?P<name>\d+), and of literal text *)
(* that holds no digit, with literal text between any two groups.          *)
(***************************************************************************)
\* Every group of the pattern is named, no literal is a digit and no group
\* follows another directly.
Separated(pattern) ==
    /\ \A k \in 1..Len(pattern) :
          IF pattern[k].k = "grp" THEN pattern[k].name # ""
          ELSE ~IsDigit(pattern[k].c)
    /\ \A k \in 1..(Len(pattern) - 1) :
          ~(pattern[k].k = "grp" /\ pattern[k + 1].k = "grp")

C13_RoundTripOfSeparatedPattern ==
    (/\ ReadAfterWrite
     /\ Len(h_patterns) = 1
     /\ CarriesAll(h_patterns[1])
     /\ Separated(h_patterns[1])
     /\ search(h_patterns[1], h_text, 0).ok) =>
       h_read = ver

C13_Witness ==
    /\ ReadAfterWrite
    /\ h_patterns = <<ReversedPattern>>
    /\ h_text = TextDashed
    /\ ver = Version(12, 0, 3)
    /\ h_written[1] = <<"3", "-", "0", "-", "1", "2">>
    /\ h_read = ver

(***************************************************************************)
(* C14, as claimed. write_version is idempotent for a fixed version: for   *)
(* every text, pattern list and Version v,                                 *)
(* write_version(write_version(text, patterns, v), patterns, v)            *)
(*   = write_version(text, patterns, v).                                   *)
(***************************************************************************)
WrittenTwice == Len(h_written) = 2

C14_WriteIdempotent == WrittenTwice => h_written[2] = h_written[1]

(***************************************************************************)
(* C14, as amended. write_version is idempotent for a fixed version when   *)
(* every pattern of the list is made of one or more named groups, each     *)
(* (?P<name>\d+), and of literal text that holds no digit, with literal    *)
(* text between any two groups.                                            *)
(***************************************************************************)
C14_WriteIdempotentOfSeparatedPatterns ==
    (/\ WrittenTwice
     /\ \A k \in 1..Len(h_patterns) :
           Separated(h_patterns[k]) /\ PatternGroups(h_patterns[k]) > 0) =>
       h_written[2] = h_written[1]

C14_Witness ==
    /\ WrittenTwice
    /\ h_patterns = <<MajorMinorPattern, PatchPattern>>
    /\ h_text = TextSplit
    /\ ver = Version(12, 0, 3)
    /\ h_written[1] = <<"1", "2", ".", "0", " ", "p", "3">>
    /\ h_written[2] = h_written[1]

(***************************************************************************)
(* C15. When the changelog has no "## Unreleased" line, the new version's  *)
(* section is inserted right before the first level-2 section: the text    *)
(* before that section is kept as the prefix (its trailing whitespace      *)
(* trimmed) and everything from that section on follows the new section    *)
(* unchanged.                                                              *)
(***************************************************************************)
\* A line of the text is exactly "## Unreleased".
HasUnreleasedLine(text) ==
    \E k \in 1..Len(splitlines(text)) : splitlines(text)[k] = UnreleasedHeading

\* Offset i starts a line that opens a level-2 section: "##", then a
\* character that is not "#".
Level2At(text, i) ==
    /\ (i = 0 \/ text[i] = "\n")
    /\ i + 3 <= Len(text)
    /\ text[i + 1] = "#"
    /\ text[i + 2] = "#"
    /\ text[i + 3] # "#"

Level2Offsets(text) == {i \in 0..Len(text) : Level2At(text, i)}

FirstLevel2(text) ==
    CHOOSE i \in Level2Offsets(text) : \A j \in Level2Offsets(text) : i <= j

endswith(s, suffix) ==
    Len(s) >= Len(suffix) /\ Slice(s, Len(s) - Len(suffix), Len(s)) = suffix

\* The harness built the new changelog of a text without an Unreleased line
\* and with a level-2 section.
RenderedBeforeSection ==
    /\ h_op = "render"
    /\ h_text # NoFile
    /\ ~HasUnreleasedLine(h_text)
    /\ Level2Offsets(h_text) # {}

C15_NewSectionBeforeFirstSection ==
    RenderedBeforeSection =>
       LET i == FirstLevel2(h_text)
           above == rstrip(Slice(h_text, 0, i))
                       \o <<"\n", "\n", "#", "#", " ">> \o VersionStr(ver)
           below == <<"\n", "\n">> \o entry \o <<"\n", "\n">>
                       \o Slice(h_text, i, Len(h_text))
           new == h_written[1]
       IN /\ split[1] = rstrip(Slice(h_text, 0, i))
          /\ startswith(new, above)
          /\ endswith(new, below)
          /\ Len(new) >= Len(above) + Len(below)
          /\ \A n \in (Len(above) + 1)..(Len(new) - Len(below)) :
                new[n] # "\n"

C15_Witness ==
    /\ RenderedBeforeSection
    /\ h_text = join(<<LineTitle, LineSubsection, LineRelease, LineItem>>)
    /\ entry = HarnessEntry
    /\ split[3] = join(<<LineRelease, LineItem>>)

(***************************************************************************)
(* C16. When the changelog has a "## Unreleased" line, read_changelog      *)
(* returns: prefix = the text before that line, trailing whitespace        *)
(* trimmed; body = the text after that heading up to the next level-2      *)
(* heading or the end of the text, trimmed; suffix = the text from that    *)
(* next level-2 heading on, and the empty string when there is none.       *)
(***************************************************************************)
\* Offset i starts a line that is exactly "## Unreleased".
UnreleasedLineAt(text, i) ==
    /\ (i = 0 \/ text[i] = "\n")
    /\ i + Len(UnreleasedHeading) <= Len(text)
    /\ Slice(text, i, i + Len(UnreleasedHeading)) = UnreleasedHeading
    /\ (i + Len(UnreleasedHeading) = Len(text)
          \/ text[i + Len(UnreleasedHeading) + 1] = "\n")

UnreleasedOffsets(text) == {i \in 0..Len(text) : UnreleasedLineAt(text, i)}

FirstUnreleased(text) ==
    CHOOSE i \in UnreleasedOffsets(text) :
       \A j \in UnreleasedOffsets(text) : i <= j

\* The level-2 headings after the first Unreleased heading.
LaterSections(text) ==
    {i \in Level2Offsets(text) :
        i >= FirstUnreleased(text) + Len(UnreleasedHeading)}

NextSection(text) ==
    CHOOSE i \in LaterSections(text) : \A j \in LaterSections(text) : i <= j

SplitWithUnreleased ==
    /\ h_op = "split"
    /\ h_text # NoFile
    /\ UnreleasedOffsets(h_text) # {}

C16_SplitAtUnreleased ==
    SplitWithUnreleased =>
       LET u == FirstUnreleased(h_text)
           after == u + Len(UnreleasedHeading)
           more == LaterSections(h_text) # {}
           body_end == IF more THEN NextSection(h_text) ELSE Len(h_text)
       IN /\ split[1] = rstrip(Slice(h_text, 0, u))
          /\ split[2] = strip(Slice(h_text, after, body_end))
          /\ split[3] = IF more
                        THEN Slice(h_text, NextSection(h_text), Len(h_text))
                        ELSE <<>>

(***************************************************************************)
(* C17. The changelog written on confirmation is exactly                   *)
(* prefix + "\n\n" + heading + "\n\n" + entry + "\n\n" + suffix, whatever  *)
(* the body and the suffix are, where heading is "## {new version} - {day}"*)
(* with an en-dash (U+2013) for the dash, the day in ISO-8601.             *)
(***************************************************************************)
EnDash == "U+2013"

HeadingWithEnDash ==
    <<"#", "#", " ">> \o VersionStr(new_version) \o <<" ", EnDash, " ">>
       \o today

ChangelogWrites ==
    {i \in CallIndexes :
        calls[i].op = "write" /\ calls[i].file = cfg.changelog}

C17_ChangelogWrittenWithEnDash ==
    \A i \in ChangelogWrites :
       calls[i].text = split[1] \o <<"\n", "\n">> \o HeadingWithEnDash
                          \o <<"\n", "\n">> \o entry \o <<"\n", "\n">>
                          \o split[3]

(***************************************************************************)
(* C18. For every changelog text, with or without an Unreleased section    *)
(* and with or without later level-2 sections, the parts read_changelog    *)
(* returns, put together again with the original heading and the original  *)
(* body as the entry, give the original text up to whitespace.             *)
(***************************************************************************)
\* Runs of whitespace collapsed to one space.
RECURSIVE Collapse(_)
Collapse(s) ==
    IF Len(s) = 0 THEN <<>>
    ELSE IF s[1] \in Whitespace
    THEN IF Len(lstrip(s)) = 0 THEN <<>> ELSE <<" ">> \o Collapse(lstrip(s))
    ELSE <<s[1]>> \o Collapse(Tail(s))

\* The text with its whitespace normalised: trimmed, runs collapsed.
Normalised(s) == Collapse(strip(s))

\* The heading the text had: "## Unreleased", or none.
OriginalHeading ==
    IF UnreleasedOffsets(h_text) # {} THEN UnreleasedHeading ELSE <<>>

C18_SplitThenRenderIsOriginal ==
    (h_op = "split" /\ h_text # NoFile) =>
       Normalised(Render(split[1], OriginalHeading, split[2], split[3]))
          = Normalised(h_text)

(***************************************************************************)
(* C19. The seed text given to the editor lists exactly the subjects of    *)
(* the commits made after the old version's tag, oldest first, each on a   *)
(* line "# - subject"; when that tag does not resolve the seed has no      *)
(* commit section and the run does not fail for it.                        *)
(***************************************************************************)
\* The subjects on the lines "# - subject" of the lines k.. of a text.
RECURSIVE BulletSubjects(_, _)
BulletSubjects(lines, k) ==
    IF k > Len(lines) THEN <<>>
    ELSE (IF startswith(lines[k], <<"#", " ", "-", " ">>)
          THEN <<Slice(lines[k], 4, Len(lines[k]))>> ELSE <<>>)
         \o BulletSubjects(lines, k + 1)

OldTagResolves == \E t \in start.tags : t.name = <<"v">> \o VersionStr(old_version)

\* The subjects of the commits the run found after the tag of the old
\* version, oldest first.
SubjectsSinceOldTag ==
    IF ~OldTagResolves THEN <<>>
    ELSE LET t == CHOOSE t \in start.tags :
                     t.name = <<"v">> \o VersionStr(old_version)
         IN [i \in 1..(Len(start.log) - t.at) |-> start.log[t.at + i]]

\* A line of the text opens the commit section.
HasCommitSection(text) ==
    \E k \in 1..Len(splitlines(text)) :
       startswith(splitlines(text)[k],
                  <<"#", " ", "C", "o", "m", "m", "i", "t", "s">>)

EditorCalls == {i \in CallIndexes : calls[i].op = "editor"}

C19_SeedListsCommitsSinceTag ==
    /\ [](\A i \in EditorCalls :
            /\ BulletSubjects(splitlines(calls[i].text), 1) = SubjectsSinceOldTag
            /\ HasCommitSection(calls[i].text) <=> SubjectsSinceOldTag # <<>>)
    /\ [][pc = "ChangelogEdit" =>
            /\ Len(calls') = Len(calls) + 2
            /\ calls'[Len(calls) + 1].op = "editor"
            /\ pc' = "Failed" => err' = "EmptyEntry"]_vars

\* A release made without the tag of the old version, and one whose seed
\* listed two commits.
C19_Witness ==
    /\ EditorCalls # {}
    /\ OldTagResolves
    /\ Len(SubjectsSinceOldTag) = 2
    /\ pc = "Done"

C19_WitnessNoTag ==
    /\ EditorCalls # {}
    /\ ~OldTagResolves
    /\ pc = "Done"

(***************************************************************************)
(* C20. Whenever the release commit is attempted, every configured file    *)
(* has been rewritten with the new version and staged and, when a          *)
(* changelog is configured, the changelog with the new version's section   *)
(* has been written and staged; so every commit "Release version {new}"    *)
(* holds the new version in all configured files and the new section in    *)
(* the changelog.                                                          *)
(***************************************************************************)
\* sub occurs in text.
Contains(text, sub) ==
    \E i \in 0..(Len(text) - Len(sub)) : Slice(text, i, i + Len(sub)) = sub

NewSectionStart == <<"#", "#", " ">> \o VersionStr(new_version) \o <<" ">>

\* Before call i file f was written with a text that satisfies ok, and
\* staged after that.
WrittenAndStaged(f, i, ok(_)) ==
    \E w \in 1..(i - 1) :
       /\ calls[w].op = "write"
       /\ calls[w].file = f
       /\ ok(calls[w].text)
       /\ \E a \in (w + 1)..(i - 1) :
             calls[a].op = "add" /\ calls[a].file = f /\ calls[a].ok

\* text is the k-th configured file rewritten with the new version: what
\* write_version makes of the content read at line 76, as it is or as a
\* hook run has amended it.
HoldsNewVersion(k, text) ==
    LET new_content == write_version(contents[k], cfg.patterns, new_version)
    IN text \in {new_content, HookEdit(new_content)}
HoldsNewSection(text) == Contains(text, NewSectionStart)

CommitCalls == {i \in CallIndexes : calls[i].op = "commit"}

\* The failed commits after which files were staged again.
RecoveryRounds ==
    {i \in FailedCommits :
        \E j \in CallIndexes : j > i /\ calls[j].op = "add"}

BothCommitsFailed == Cardinality(FailedCommits) = 2

C21_CommitRetriedAtMostOnce ==
    /\ [](/\ Cardinality(CommitCalls) <= 2
          /\ Cardinality(RecoveryRounds) <= 1
          /\ BothCommitsFailed =>
                /\ pc = "Failed"
                /\ \A i \in CallIndexes : calls[i].op \notin {"tag", "push"}
                /\ tags = start.tags
                /\ remote = start.remote)
    /\ <>Exited

C21_Witness ==
    /\ BothCommitsFailed
    /\ RecoveryRounds # {}
    /\ pc = "Failed"

(***************************************************************************)
(* C22. When a run that began on a clean tree is Done and the hook of the  *)
(* commit it made left no file changed, nothing is staged and nothing is   *)
(* changed in the working tree; a run started right then passes the        *)
(* checks of Preflight and reads the version just released as its old      *)
(* version.                                                                *)
(***************************************************************************)
HookLeftNothing ==
    \A i \in CommitCalls : calls[i].ok => calls[i].changed = {}

\* What lines 68-73 ask of the repository.
PassesPreflight ==
    /\ current_branch = "main"
    /\ changed_files(FALSE) = {}
    /\ changed_files(TRUE) = {}

\* What lines 76-77 would read now.
VersionReadNow == read_version(work[cfg.filenames[1]], cfg.patterns)

C22_DoneLeavesCleanTree ==
    (pc = "Done" /\ ~StartedDirty /\ HookLeftNothing) =>
       /\ PassesPreflight
       /\ \A k \in 1..Len(cfg.filenames) : work[cfg.filenames[k]] # NoFile
       /\ VersionReadNow = new_version

(***************************************************************************)
(* C22, as amended. When a run that began on a clean tree is Done and the  *)
(* hook of the commit it made left no file changed, nothing is staged and  *)
(* nothing is changed in the working tree, so a run started right then     *)
(* passes the checks of Preflight; it reads the version just released as   *)
(* its old version when the version is configured by one pattern made of   *)
(* named \d+ groups and literal text without digits, with literal text     *)
(* between any two groups and no other group, and the first configured     *)
(* file is as the run wrote it.                                            *)
(***************************************************************************)
\* The run had one pattern, a separated one, and its first file holds the
\* text the run wrote.
ReadsBackWhatWasWritten ==
    /\ Len(cfg.patterns) = 1
    /\ Separated(cfg.patterns[1])
    /\ work[cfg.filenames[1]] = Written(cfg.filenames[1])

C22_DoneLeavesCleanTreeOfSeparatedPattern ==
    (pc = "Done" /\ ~StartedDirty /\ HookLeftNothing) =>
       /\ PassesPreflight
       /\ \A k \in 1..Len(cfg.filenames) : work[cfg.filenames[k]] # NoFile
       /\ ReadsBackWhatWasWritten => VersionReadNow = new_version

C22_Witness ==
    /\ pc = "Done"
    /\ ~StartedDirty
    /\ HookLeftNothing
    /\ ReadsBackWhatWasWritten
    /\ cfg.changelog # NoPath
    /\ Len(cfg.filenames) > 1

\* The same after the hook's changes were staged again and committed.
C22_WitnessRestaged ==
    /\ pc = "Done"
    /\ HookLeftNothing
    /\ Restaged # {}

\* The same with the adjacent groups, whose version still reads back.
C22_WitnessAdjacent ==
    /\ pc = "Done"
    /\ HookLeftNothing
    /\ cfg.patterns = <<AdjacentPattern>>
    /\ VersionReadNow = new_version

(***************************************************************************)
(* C23. When the changelog has exactly one "## Unreleased" line, the       *)
(* changelog written for the release has none: it is the text before that  *)
(* line, the heading of the new version in its place, the entry, and the   *)
(* sections that followed the unreleased one; the former unreleased body   *)
(* is in it only as part of the entry.                                     *)
(***************************************************************************)
RenderedWithOneUnreleased ==
    /\ h_op = "render"
    /\ h_text # NoFile
    /\ Cardinality(UnreleasedOffsets(h_text)) = 1

C23_UnreleasedHeadingReplaced ==
    RenderedWithOneUnreleased =>
       LET u == FirstUnreleased(h_text)
           before == rstrip(Slice(h_text, 0, u))
           following == IF LaterSections(h_text) # {}
                        THEN Slice(h_text, NextSection(h_text), Len(h_text))
                        ELSE <<>>
       IN /\ UnreleasedOffsets(h_written[1]) = {}
          /\ h_written[1] =
                before \o <<"\n", "\n">> \o NewHeading(ver, today)
                   \o <<"\n", "\n">> \o entry \o <<"\n", "\n">> \o following

=============================================================================
